---- MODULE Spec2Model ----
(***************************************************************************)
(* A model of gameplay::PhysicsController (PhysicsController.cpp): the     *)
(* controller's fields, the native objects it allocates and deletes, the   *)
(* dynamics world's constraint and collision-object arrays, and one action *)
(* per member function.  Every action is the whole member function.        *)
(*                                                                         *)
(* Objects are pairs <<kind, n>>; heap[o] is the number of times o has     *)
(* been deleted (0 = live).  A null pointer is NULL.  log holds the        *)
(* events of the most recent call, in execution order.                     *)
(***************************************************************************)
EXTENDS Integers, Sequences, FiniteSets, TLC

\* ------------------------------------------------------------ bounds
MaxShapes == 1
MaxConstraints == 2
MaxBodies == 1
MaxInits == 2
\* The deletions of one object (a second one is a double delete).
MaxDeletes == 2
\* The elapsed milliseconds of an update, all tried up to this.
MaxElapsed == 200
\* The components of a shape's scale, all tried from 1 up to this.
MaxScale == 3

NULL == 0

\* Gravity vectors in tenths of a unit; DefaultGravity is (0, -9.8, 0).
DefaultGravity == <<0, -98, 0>>
Gravities == {DefaultGravity, <<0, -16, 0>>}

VARIABLES
    _gravity, _collisionConfiguration, _dispatcher, _overlappingPairCache,
    _solver, _world, _constraints, _shapes,
    heap, worlds, bodies,
    log, lastOp, crashed,
    misuse

vars == <<_gravity, _collisionConfiguration, _dispatcher, _overlappingPairCache,
          _solver, _world, _constraints, _shapes, heap, worlds, bodies,
          log, lastOp, crashed, misuse>>

ctrl == <<_gravity, _collisionConfiguration, _dispatcher, _overlappingPairCache,
          _solver, _world, _constraints, _shapes>>
native == <<heap, worlds, bodies>>

\* ------------------------------------------------------------ helpers
Obj(kind, n) == <<kind, n>>
Ev(op, obj, arg) == [op |-> op, obj |-> obj, arg |-> arg]
NullObj == Obj("null", NULL)

Range(s) == {s[i] : i \in 1..Len(s)}
Count(kind) == Cardinality({o \in DOMAIN heap : o[1] = kind})
Last(s) == s[Len(s)]
Front(s) == SubSeq(s, 1, Len(s) - 1)

\* The world's removeConstraint and removeCollisionObject: the array without
\* the element.
RemoveFrom(s, x) == SelectSeq(s, LAMBDA y : y # x)

Init ==
    /\ _gravity = DefaultGravity
    /\ _collisionConfiguration = NULL
    /\ _dispatcher = NULL
    /\ _overlappingPairCache = NULL
    /\ _solver = NULL
    /\ _world = NULL
    /\ _constraints = << >>
    /\ _shapes = << >>
    /\ heap = << >>
    /\ worlds = << >>
    /\ bodies = << >>
    /\ log = << >>
    /\ lastOp = "PhysicsController"
    /\ crashed = FALSE
    /\ misuse = FALSE

\* ------------------------------------------------------------ setGravity
\* A bug: the new gravity is stored and not handed to the live world.
setGravityStoredOnly ==
    /\ ~crashed
    /\ \E gravity \in Gravities :
         _gravity' = <<gravity[1], gravity[2], gravity[3]>>
    /\ log' = << >>
    /\ lastOp' = "setGravity"
    /\ UNCHANGED <<_collisionConfiguration, _dispatcher, _overlappingPairCache,
                   _solver, _world, _constraints, _shapes, heap, worlds, bodies,
                   crashed, misuse>>

setGravity ==
    /\ ~crashed
    /\ \E gravity \in Gravities :
         /\ _gravity' = <<gravity[1], gravity[2], gravity[3]>>
         /\ IF _world # NULL
            THEN /\ worlds' = [worlds EXCEPT ![_world].gravity = _gravity']
                 /\ log' = <<Ev("setGravity", Obj("world", _world), _gravity')>>
            ELSE /\ worlds' = worlds
                 /\ log' = << >>
    /\ lastOp' = "setGravity"
    /\ UNCHANGED <<_collisionConfiguration, _dispatcher, _overlappingPairCache,
                   _solver, _world, _constraints, _shapes, heap, bodies,
                   crashed, misuse>>

\* ------------------------------------------------------------ initialize
\* The k-th call allocates the k-th set of world components.  The fields are
\* overwritten without a look at their old values.
\* A bug that is not in the code: a world still held is torn down first.
initializeDeletingOld ==
    /\ ~crashed
    /\ Count("world") < MaxInits
    /\ LET k == Count("world") + 1
           old == {Obj(c, _world) : c \in {"collisionConfiguration", "dispatcher",
                                           "overlappingPairCache", "solver", "world"}}
       IN  /\ heap' = [o \in DOMAIN heap |-> IF o \in old THEN 1 ELSE heap[o]]
                           @@ (Obj("collisionConfiguration", k) :> 0)
                           @@ (Obj("dispatcher", k) :> 0)
                           @@ (Obj("overlappingPairCache", k) :> 0)
                           @@ (Obj("solver", k) :> 0)
                           @@ (Obj("world", k) :> 0)
           /\ _collisionConfiguration' = k
           /\ _dispatcher' = k
           /\ _overlappingPairCache' = k
           /\ _solver' = k
           /\ _world' = k
           /\ worlds' = worlds @@ (k :> [gravity |-> _gravity,
                                         constraints |-> << >>,
                                         objects |-> << >>])
           /\ log' = <<Ev("new", Obj("collisionConfiguration", k), << >>),
                       Ev("new", Obj("dispatcher", k), << >>),
                       Ev("new", Obj("overlappingPairCache", k), << >>),
                       Ev("new", Obj("solver", k), << >>),
                       Ev("new", Obj("world", k), << >>),
                       Ev("setGravity", Obj("world", k), _gravity)>>
    /\ lastOp' = "initialize"
    /\ misuse' = (misuse \/ _world # NULL)
    /\ UNCHANGED <<_gravity, _constraints, _shapes, bodies, crashed>>

initialize ==
    /\ ~crashed
    /\ Count("world") < MaxInits
    /\ LET k == Count("world") + 1
       IN  /\ heap' = heap @@ (Obj("collisionConfiguration", k) :> 0)
                           @@ (Obj("dispatcher", k) :> 0)
                           @@ (Obj("overlappingPairCache", k) :> 0)
                           @@ (Obj("solver", k) :> 0)
                           @@ (Obj("world", k) :> 0)
           /\ _collisionConfiguration' = k
           /\ _dispatcher' = k
           /\ _overlappingPairCache' = k
           /\ _solver' = k
           /\ _world' = k
           /\ worlds' = worlds @@ (k :> [gravity |-> _gravity,
                                         constraints |-> << >>,
                                         objects |-> << >>])
           /\ log' = <<Ev("new", Obj("collisionConfiguration", k), << >>),
                       Ev("new", Obj("dispatcher", k), << >>),
                       Ev("new", Obj("overlappingPairCache", k), << >>),
                       Ev("new", Obj("solver", k), << >>),
                       Ev("new", Obj("world", k), << >>),
                       Ev("setGravity", Obj("world", k), _gravity)>>
    /\ lastOp' = "initialize"
    /\ misuse' = (misuse \/ _world # NULL)
    /\ UNCHANGED <<_gravity, _constraints, _shapes, bodies, crashed>>

\* ------------------------------------------------------------ constraints
\* Dereferencing the null _world is undefined behaviour: the call either
\* faults there, or goes on with the world call having had no effect.
UBOutcomes == {"crash", "continue"}

\* addConstraint(constraint): attach the native constraint to the world, then
\* track the wrapper.  pre is the log of the caller up to the call.
addConstraint(constraint, pre) ==
    LET n == constraint[2]
        nativeC == Obj("native", n)
    IN  IF _world # NULL
        THEN /\ worlds' = [worlds EXCEPT
                             ![_world].constraints = Append(@, nativeC)]
             /\ _constraints' = Append(_constraints, constraint)
             /\ crashed' = FALSE
             /\ log' = pre \o <<Ev("addConstraint", nativeC, <<_world>>),
                                Ev("push_back", constraint, << >>)>>
        ELSE \E o \in UBOutcomes :
               /\ worlds' = worlds
               /\ IF o = "crash"
                  THEN /\ _constraints' = _constraints
                       /\ crashed' = TRUE
                       /\ log' = pre \o <<Ev("nullDeref", NullObj, << >>)>>
                  ELSE /\ _constraints' = Append(_constraints, constraint)
                       /\ crashed' = FALSE
                       /\ log' = pre \o <<Ev("nullDeref", NullObj, << >>),
                                          Ev("push_back", constraint, << >>)>>

\* new Physics<kind>Constraint(...): the wrapper and its native constraint;
\* then addConstraint; the wrapper is returned.
CreateConstraint(kind, op) ==
    /\ ~crashed
    /\ Count("wrapper") < MaxConstraints
    /\ LET n == Count("wrapper") + 1
           constraint == Obj("wrapper", n)
       IN  /\ heap' = heap @@ (constraint :> 0) @@ (Obj("native", n) :> 0)
           /\ addConstraint(constraint, <<Ev("new" \o kind, constraint, << >>)>>)
    /\ lastOp' = op
    /\ misuse' = (misuse \/ _world = NULL)
    /\ UNCHANGED <<_gravity, _collisionConfiguration, _dispatcher,
                   _overlappingPairCache, _solver, _world, _shapes, bodies>>

createFixedConstraint == CreateConstraint("Fixed", "createFixedConstraint")
createGenericConstraint == CreateConstraint("Generic", "createGenericConstraint")
createHingeConstraint == CreateConstraint("Hinge", "createHingeConstraint")
createSocketConstraint == CreateConstraint("Socket", "createSocketConstraint")
createSpringConstraint == CreateConstraint("Spring", "createSpringConstraint")

\* ------------------------------------------------------------ pause, resume
\* A bug: pausing takes the gravity off the live world.
pauseWithoutGravity ==
    /\ ~crashed
    /\ lastOp' = "pause"
    /\ log' = << >>
    /\ worlds' = IF _world = NULL THEN worlds
                 ELSE [worlds EXCEPT ![_world].gravity = <<0, 0, 0>>]
    /\ UNCHANGED <<ctrl, heap, bodies, crashed, misuse>>

pause ==
    /\ ~crashed
    /\ lastOp' = "pause"
    /\ log' = << >>
    /\ UNCHANGED <<ctrl, native, crashed, misuse>>

resume ==
    /\ ~crashed
    /\ lastOp' = "resume"
    /\ log' = << >>
    /\ UNCHANGED <<ctrl, native, crashed, misuse>>

\* ------------------------------------------------------------ update
\* A number of seconds is a pair <<numerator, denominator>>.
\* (float)elapsedTime * 0.001: milliseconds to seconds.
MillisToSeconds(elapsedTime) == <<elapsedTime, 1000>>

\* stepSimulation's default fixed sub-step, 1/60 s.
FixedTimeStep == <<1, 60>>

Min(a, b) == IF a < b THEN a ELSE b
FloorDiv(a, b) == a \div b
CeilDiv(a, b) == (a + b - 1) \div b

\* The whole sub-steps that fit into timeStep, and those needed to cover it.
StepsFitting(timeStep) ==
    FloorDiv(timeStep[1] * FixedTimeStep[2], timeStep[2] * FixedTimeStep[1])
StepsCovering(timeStep) ==
    CeilDiv(timeStep[1] * FixedTimeStep[2], timeStep[2] * FixedTimeStep[1])

\* btDiscreteDynamicsWorld::stepSimulation(timeStep, maxSubSteps): the numbers
\* of sub-steps one call may perform.  The library decides the rounding; it
\* never exceeds maxSubSteps.
stepSimulation(timeStep, maxSubSteps) ==
    {n \in 0..maxSubSteps :
        /\ Min(StepsFitting(timeStep), maxSubSteps) <= n
        /\ n <= Min(StepsCovering(timeStep), maxSubSteps)}

\* A bug: the sub-step cap is far too high to bound a frame.
StepSimulationArgsUncapped(elapsedTime) == <<MillisToSeconds(elapsedTime), 100>>

\* The arguments update() hands to stepSimulation: the elapsed seconds and
\* the cap of 10 sub-steps.
StepSimulationArgs(elapsedTime) == <<MillisToSeconds(elapsedTime), 10>>

\* update(elapsedTime), for the elapsed times of ElapsedTimes.
update(ElapsedTimes) ==
    /\ ~crashed
    /\ \E elapsedTime \in ElapsedTimes :
         IF _world # NULL
         THEN \E n \in stepSimulation(StepSimulationArgs(elapsedTime)[1],
                                      StepSimulationArgs(elapsedTime)[2]) :
                /\ log' = <<Ev("stepSimulation", Obj("world", _world),
                               <<elapsedTime, n>>),
                            Ev("gravity", Obj("world", _world),
                               worlds[_world].gravity)>>
                /\ crashed' = FALSE
         ELSE \E o \in UBOutcomes :
                /\ log' = <<Ev("nullDeref", NullObj, <<elapsedTime>>)>>
                /\ crashed' = (o = "crash")
    /\ lastOp' = "update"
    /\ misuse' = (misuse \/ _world = NULL)
    /\ UNCHANGED <<ctrl, native>>

\* ------------------------------------------------------------ shapes
Abs(x) == IF x < 0 THEN -x ELSE x

\* A bug: the difference is taken without abs.
HalfExtentsSigned(min, max, scale) ==
    <<scale[1] * (max[1] - min[1]),
      scale[2] * (max[2] - min[2]),
      scale[3] * (max[3] - min[3])>>

\* Vectors are triples of integers.  A half-extent is a number of halves:
\* scale * 0.5 * abs(max - min) is (scale * abs(max - min)) / 2.
HalfExtents(min, max, scale) ==
    <<scale[1] * Abs(max[1] - min[1]),
      scale[2] * Abs(max[2] - min[2]),
      scale[3] * Abs(max[3] - min[3])>>

\* _shapes.push_back(shape) with the shape's event; no look at _world.  call
\* is the event of the call with its arguments.
RegisterShape(shape, call, ev) ==
    /\ heap' = heap @@ (shape :> 0)
    /\ _shapes' = Append(_shapes, shape)
    /\ log' = <<call, ev, Ev("push_back", shape, << >>), Ev("return", shape, << >>)>>
    /\ misuse' = (misuse \/ _world = NULL)
    /\ UNCHANGED <<_gravity, _collisionConfiguration, _dispatcher,
                   _overlappingPairCache, _solver, _world, _constraints,
                   worlds, bodies, crashed>>

\* getBox(min, max, scale), for the corners of Corners and scales of Scales.
getBox(Corners, Scales) ==
    /\ ~crashed
    /\ Count("shape") < MaxShapes
    /\ \E min \in Corners, max \in Corners, scale \in Scales :
         LET box == Obj("shape", Count("shape") + 1)
         IN  RegisterShape(box, Ev("getBox", NullObj, <<min, max, scale>>),
                           Ev("newBox", box, HalfExtents(min, max, scale)))
    /\ lastOp' = "getBox"

\* A bug: the y and z components are never looked at.
UniformScaleX(scale) == scale[1]

\* uniformScale: scale.x(), replaced by scale.y() and then scale.z() where
\* those are larger.
UniformScale(scale) ==
    LET s1 == scale[1]
        s2 == IF s1 < scale[2] THEN scale[2] ELSE s1
        s3 == IF s2 < scale[3] THEN scale[3] ELSE s2
    IN  s3

\* getSphere(radius, scale), for the radii of Radii and scales of Scales.
getSphere(Radii, Scales) ==
    /\ ~crashed
    /\ Count("shape") < MaxShapes
    /\ \E radius \in Radii, scale \in Scales :
         LET sphere == Obj("shape", Count("shape") + 1)
         IN  RegisterShape(sphere, Ev("getSphere", NullObj, <<radius, scale>>),
                 Ev("newSphere", sphere, <<UniformScale(scale) * radius>>))
    /\ lastOp' = "getSphere"

\* getTriangleMesh(vertexData, vertexPositionStride, indexData, indexFormat):
\* return NULL, whatever the arguments.
getTriangleMesh(Strides, IndexFormats) ==
    /\ ~crashed
    /\ lastOp' = "getTriangleMesh"
    /\ \E vertexPositionStride \in Strides, indexFormat \in IndexFormats :
         log' = <<Ev("getTriangleMesh", NullObj, <<vertexPositionStride, indexFormat>>),
                  Ev("return", NullObj, << >>)>>
    /\ UNCHANGED <<ctrl, native, crashed, misuse>>

\* A bug: the stub hands out the shape registered last.
getHeightfieldLastShape(Widths, Heights) ==
    /\ ~crashed
    /\ lastOp' = "getHeightfield"
    /\ \E width \in Widths, height \in Heights :
         log' = <<Ev("getHeightfield", NullObj, <<width, height>>),
                  Ev("return", IF _shapes = << >> THEN NullObj ELSE Last(_shapes), << >>)>>
    /\ UNCHANGED <<ctrl, native, crashed, misuse>>

\* getHeightfield(data, width, height): return NULL, whatever the arguments.
getHeightfield(Widths, Heights) ==
    /\ ~crashed
    /\ lastOp' = "getHeightfield"
    /\ \E width \in Widths, height \in Heights :
         log' = <<Ev("getHeightfield", NullObj, <<width, height>>),
                  Ev("return", NullObj, << >>)>>
    /\ UNCHANGED <<ctrl, native, crashed, misuse>>

\* ------------------------------------------------------------ bodies
\* A rigid body (or other collision object) the body-construction code adds to
\* the live world: it is built on the shape that code has just got from
\* getBox or getSphere, and may own a motion state.
BodyVariants == {"rigidWithMotionState", "rigid", "collisionObject"}

addCollisionObject(Limit) ==
    /\ ~crashed
    /\ _world # NULL
    /\ Count("body") < Limit
    /\ _shapes # << >>
    /\ \E variant \in BodyVariants :
         LET n == Count("body") + 1
             shape == Last(_shapes)
             body == Obj("body", n)
             ms == IF variant = "rigidWithMotionState"
                   THEN Obj("motionState", n) ELSE NullObj
         IN  /\ heap' = IF ms = NullObj
                        THEN heap @@ (body :> 0)
                        ELSE heap @@ (body :> 0) @@ (ms :> 0)
             /\ bodies' = bodies @@ (body :> [rigid |-> variant # "collisionObject",
                                              motionState |-> ms,
                                              shape |-> shape])
             /\ worlds' = [worlds EXCEPT ![_world].objects = Append(@, body)]
             /\ log' = <<Ev("addCollisionObject", body, <<_world>>)>>
    /\ lastOp' = "addCollisionObject"
    /\ UNCHANGED <<ctrl, crashed, misuse>>

\* ------------------------------------------------------------ finalize
\* finalize() runs statement by statement over a record of what it changes;
\* a statement with undefined behaviour has both outcomes, and a fault ends
\* the run where it happens.
Running ==
    [heap |-> heap, worlds |-> worlds, shapes |-> _shapes, world |-> _world,
     solver |-> _solver, overlappingPairCache |-> _overlappingPairCache,
     dispatcher |-> _dispatcher, collisionConfiguration |-> _collisionConfiguration,
     crashed |-> FALSE, log |-> << >>]

Emit(st, e) == [st EXCEPT !.log = Append(@, e)]
Fault(st, e) == [st EXCEPT !.crashed = TRUE, !.log = Append(@, e)]

\* Of the outcomes S of a statement: those where the run has faulted and
\* stays as it is, and those from which the next statement runs.
Stopped(S) == {s \in S : s.crashed}
Continuing(S) == {s \in S : ~s.crashed}

\* delete p: nothing for a null pointer; undefined for an object already
\* deleted.
Delete(st, o) ==
    IF o = NullObj THEN {st}
    ELSE IF st.heap[o] >= 1
    THEN {Fault(st, Ev("doubleDelete", o, << >>)),
          Emit([st EXCEPT !.heap[o] = @ + 1], Ev("delete", o, << >>))}
    ELSE {Emit([st EXCEPT !.heap[o] = 1], Ev("delete", o, << >>))}

\* _world-> on a null _world: a fault, or the loop that reads its count is
\* skipped.
DerefWorld(st) ==
    IF st.world = NULL
    THEN {Fault(st, Ev("nullDeref", NullObj, << >>)),
          Emit(st, Ev("nullDeref", NullObj, << >>))}
    ELSE {st}

NumConstraints(st) == IF st.world = NULL THEN 0 ELSE Len(st.worlds[st.world].constraints)
NumCollisionObjects(st) == IF st.world = NULL THEN 0 ELSE Len(st.worlds[st.world].objects)

\* A bug: the loop takes the first constraint each time round.
finalizeConstraintAtFirst(cs, i) == cs[1]

\* The element the constraint loop takes at index i (1-based here).
finalizeConstraintAt(cs, i) == cs[i]

\* for (i = getNumConstraints() - 1; i >= 0; i--): remove, then delete.
RECURSIVE finalizeConstraintLoop(_, _)
finalizeConstraintLoop(st, i) ==
    IF i < 1 THEN {st}
    ELSE LET c == finalizeConstraintAt(st.worlds[st.world].constraints, i)
             removed == Emit([st EXCEPT !.worlds[st.world].constraints = RemoveFrom(@, c)],
                             Ev("removeConstraint", c, <<st.world>>))
             deleted == Delete(removed, c)
         IN  Stopped(deleted)
             \cup UNION {finalizeConstraintLoop(s, i - 1) : s \in Continuing(deleted)}

finalizeConstraints(st) ==
    LET d == DerefWorld(st)
    IN  Stopped(d) \cup UNION {finalizeConstraintLoop(s, NumConstraints(s)) : s \in Continuing(d)}

\* for (i = 0; i < _constraints.size(); i++) delete _constraints[i];
RECURSIVE finalizeWrapperLoop(_, _)
finalizeWrapperLoop(st, i) ==
    IF i > Len(_constraints) THEN {st}
    ELSE LET deleted == Delete(st, _constraints[i])
         IN  Stopped(deleted)
             \cup UNION {finalizeWrapperLoop(s, i + 1) : s \in Continuing(deleted)}

\* A bug: the loop over the wrappers is missing.
finalizeWrappersNone(st) == {st}

finalizeWrappers(st) == finalizeWrapperLoop(st, 1)

\* for (i = getNumCollisionObjects() - 1; i >= 0; i--): delete the motion
\* state of a rigid body that has one, remove the object, delete it.
\* A bug: the loop takes the first collision object each time round.
finalizeObjectAtFirst(objs, i) == objs[1]

\* The element the collision-object loop takes at index i (1-based here).
finalizeObjectAt(objs, i) == objs[i]

\* _world->removeCollisionObject(obj)
finalizeRemoveObject(st, obj) ==
    Emit([st EXCEPT !.worlds[st.world].objects = RemoveFrom(@, obj)],
         Ev("removeCollisionObject", obj, <<st.world>>))

\* The motion state a round of the loop deletes: that of a rigid body that
\* has one.
finalizeMotionState(obj) ==
    IF bodies[obj].rigid /\ bodies[obj].motionState # NullObj
    THEN bodies[obj].motionState ELSE NullObj

\* A bug: the object is deleted while it is still in the world.
finalizeObjectDeletedFirst(st, obj) ==
    LET msDeleted == Delete(st, finalizeMotionState(obj))
        deleted == Stopped(msDeleted)
                   \cup UNION {Delete(s, obj) : s \in Continuing(msDeleted)}
    IN  Stopped(deleted) \cup {finalizeRemoveObject(s, obj) : s \in Continuing(deleted)}

\* One round of the loop: delete the motion state, remove the object from
\* the world, delete the object.
finalizeObject(st, obj) ==
    LET msDeleted == Delete(st, finalizeMotionState(obj))
    IN  Stopped(msDeleted)
        \cup UNION {Delete(finalizeRemoveObject(s, obj), obj) : s \in Continuing(msDeleted)}

RECURSIVE finalizeObjectLoop(_, _)
finalizeObjectLoop(st, i) ==
    IF i < 1 THEN {st}
    ELSE LET deleted == finalizeObject(st, finalizeObjectAt(st.worlds[st.world].objects, i))
         IN  Stopped(deleted)
             \cup UNION {finalizeObjectLoop(s, i - 1) : s \in Continuing(deleted)}

finalizeObjects(st) ==
    LET d == DerefWorld(st)
    IN  Stopped(d) \cup UNION {finalizeObjectLoop(s, NumCollisionObjects(s)) : s \in Continuing(d)}

\* for (i = 0; i < _shapes.size(); i++): null the slot, delete the shape.
RECURSIVE finalizeShapeLoop(_, _)
finalizeShapeLoop(st, i) ==
    IF i > Len(st.shapes) THEN {st}
    ELSE LET shape == st.shapes[i]
             deleted == Delete([st EXCEPT !.shapes[i] = NullObj], shape)
         IN  Stopped(deleted)
             \cup UNION {finalizeShapeLoop(s, i + 1) : s \in Continuing(deleted)}

\* _shapes.clear()
finalizeClearShapes(st) ==
    Emit([st EXCEPT !.shapes = << >>], Ev("clear", Obj("_shapes", 0), << >>))

\* A bug: the loop that deletes the shapes is missing.
finalizeShapesNone(st) == {finalizeClearShapes(st)}

\* The shape loop, then _shapes.clear().
finalizeShapes(st) ==
    LET d == finalizeShapeLoop(st, 1)
    IN  Stopped(d) \cup {finalizeClearShapes(s) : s \in Continuing(d)}

\* delete _world; _world = NULL;
finalizeWorld(st) ==
    LET w == st.world
        d == IF w = NULL THEN {st}
             ELSE Delete([st EXCEPT !.worlds = [k \in DOMAIN @ \ {w} |-> @[k]]],
                         Obj("world", w))
    IN  Stopped(d) \cup {[s EXCEPT !.world = NULL] : s \in Continuing(d)}

\* delete <component>; <component> = NULL;
finalizeComponent(st, field) ==
    LET d == IF st[field] = NULL THEN {st} ELSE Delete(st, Obj(field, st[field]))
    IN  Stopped(d) \cup {[s EXCEPT ![field] = NULL] : s \in Continuing(d)}

\* A bug: the solver goes before the world that uses it.
finalizeComponentsSolverFirst(st) ==
    LET p1 == finalizeComponent(st, "solver")
        p2 == Stopped(p1) \cup UNION {finalizeWorld(s) : s \in Continuing(p1)}
        p3 == Stopped(p2)
              \cup UNION {finalizeComponent(s, "overlappingPairCache") : s \in Continuing(p2)}
        p4 == Stopped(p3) \cup UNION {finalizeComponent(s, "dispatcher") : s \in Continuing(p3)}
    IN  Stopped(p4)
        \cup UNION {finalizeComponent(s, "collisionConfiguration") : s \in Continuing(p4)}

\* The world, the solver, the broadphase cache, the dispatcher, the collision
\* configuration.
finalizeComponents(st) ==
    LET p1 == finalizeWorld(st)
        p2 == Stopped(p1) \cup UNION {finalizeComponent(s, "solver") : s \in Continuing(p1)}
        p3 == Stopped(p2)
              \cup UNION {finalizeComponent(s, "overlappingPairCache") : s \in Continuing(p2)}
        p4 == Stopped(p3) \cup UNION {finalizeComponent(s, "dispatcher") : s \in Continuing(p3)}
    IN  Stopped(p4)
        \cup UNION {finalizeComponent(s, "collisionConfiguration") : s \in Continuing(p4)}

\* A bug: the shapes are deleted before the bodies that refer to them.
finalizeOutcomesShapesFirst ==
    LET p1 == finalizeConstraints(Running)
        p2 == Stopped(p1) \cup UNION {finalizeWrappers(s) : s \in Continuing(p1)}
        p3 == Stopped(p2) \cup UNION {finalizeShapes(s) : s \in Continuing(p2)}
        p4 == Stopped(p3) \cup UNION {finalizeObjects(s) : s \in Continuing(p3)}
    IN  Stopped(p4) \cup UNION {finalizeComponents(s) : s \in Continuing(p4)}

\* finalize(), lines 99 to 149 in order; the outcomes of the whole call.
finalizeOutcomes ==
    LET p1 == finalizeConstraints(Running)
        p2 == Stopped(p1) \cup UNION {finalizeWrappers(s) : s \in Continuing(p1)}
        p3 == Stopped(p2) \cup UNION {finalizeObjects(s) : s \in Continuing(p2)}
        p4 == Stopped(p3) \cup UNION {finalizeShapes(s) : s \in Continuing(p3)}
    IN  Stopped(p4) \cup UNION {finalizeComponents(s) : s \in Continuing(p4)}

finalize ==
    /\ ~crashed
    /\ \A w \in Range(_constraints) : heap[w] < MaxDeletes
    /\ \E st \in finalizeOutcomes :
         /\ heap' = st.heap
         /\ worlds' = st.worlds
         /\ _shapes' = st.shapes
         /\ _world' = st.world
         /\ _solver' = st.solver
         /\ _overlappingPairCache' = st.overlappingPairCache
         /\ _dispatcher' = st.dispatcher
         /\ _collisionConfiguration' = st.collisionConfiguration
         /\ crashed' = st.crashed
         /\ log' = st.log
    /\ lastOp' = "finalize"
    /\ misuse' = (misuse \/ _world = NULL)
    /\ UNCHANGED <<_gravity, _constraints, bodies>>

\* ------------------------------------------------------------ specifications
\* Spec: the lifetime of the objects: the world's construction and teardown,
\* the shapes, the constraints and the bodies added to the world.
LifecycleCorners == {<<0, 0, 0>>, <<2, 4, 6>>}
LifecycleScales == {<<1, 2, 3>>}
LifecycleRadii == {1}

Next ==
    \/ initialize
    \/ finalize
    \/ createFixedConstraint
    \/ createGenericConstraint
    \/ createHingeConstraint
    \/ createSocketConstraint
    \/ createSpringConstraint
    \/ getBox(LifecycleCorners, LifecycleScales)
    \/ getSphere(LifecycleRadii, LifecycleScales)
    \/ addCollisionObject(MaxBodies)

Spec == Init /\ [][Next]_vars

\* SpecOps: every member function of the controller, in any order; no code
\* outside the controller adds bodies.
OpsElapsedTimes == {17, 1000}
OpsStrides == {3}
OpsIndexFormats == {"INDEX8", "INDEX16"}
OpsWidths == {0, 2}
OpsHeights == {2}

NextOps ==
    \/ setGravity
    \/ initialize
    \/ finalize
    \/ createFixedConstraint
    \/ createGenericConstraint
    \/ createHingeConstraint
    \/ createSocketConstraint
    \/ createSpringConstraint
    \/ pause
    \/ resume
    \/ update(OpsElapsedTimes)
    \/ getBox(LifecycleCorners, LifecycleScales)
    \/ getSphere(LifecycleRadii, LifecycleScales)
    \/ getTriangleMesh(OpsStrides, OpsIndexFormats)
    \/ getHeightfield(OpsWidths, OpsHeights)

SpecOps == Init /\ [][NextOps]_vars

\* SpecUpdate: the frame loop: a world brought up and torn down, gravity set
\* at any time, and updates over every elapsed time up to MaxElapsed
\* milliseconds and some far larger ones (a second, an hour, over eight
\* hours).
UpdateElapsedTimes == (0..MaxElapsed) \cup {1000, 3600000, 30000000}

NextUpdate ==
    \/ setGravity
    \/ initialize
    \/ finalize
    \/ update(UpdateElapsedTimes)

SpecUpdate == Init /\ [][NextUpdate]_vars

\* SpecShapes: the shape factories over many arguments: boxes between
\* corners in either order on each axis (and equal on some), spheres, every
\* scale with components from 1 to MaxScale.
ShapeCorners == {<<0, 0, 0>>, <<2, 4, 6>>, <<-1, 5, 6>>, <<2, 0, 3>>}
ShapeScales == {<<x, y, z>> : x \in 1..MaxScale, y \in 1..MaxScale, z \in 1..MaxScale}
ShapeRadii == {1, 2}

NextShapes ==
    \/ getBox(ShapeCorners, ShapeScales)
    \/ getSphere(ShapeRadii, ShapeScales)

SpecShapes == Init /\ [][NextShapes]_vars

\* SpecTeardown: a world with several bodies on a shape, brought up and torn
\* down.
TeardownBodies == MaxBodies + 1
TeardownCorners == {<<0, 0, 0>>}
TeardownScales == {<<1, 1, 1>>}

NextTeardown ==
    \/ initialize
    \/ finalize
    \/ getBox(TeardownCorners, TeardownScales)
    \/ addCollisionObject(TeardownBodies)

SpecTeardown == Init /\ [][NextTeardown]_vars

\* ------------------------------------------------------------ properties
Objects(kinds) == {o \in DOMAIN heap : o[1] \in kinds}
Destroyed(o) == heap[o] >= 1
LogOps(op) == {i \in DOMAIN log : log[i].op = op}
Deleted(kind) == \E i \in LogOps("delete") : log[i].obj[1] = kind

\* finalize() has returned, and every call so far kept to the lifecycle:
\* initialize() on no world, everything else on a live one.
FinalizeReturned == lastOp = "finalize" /\ ~crashed /\ ~misuse

\* C1: after finalize() returns, whatever was created since initialize(), the
\* shape registry is empty, the tracked constraint list is empty and _world
\* is null.
C1_RegistriesEmptyAfterFinalize ==
    FinalizeReturned => (_shapes = << >> /\ _constraints = << >> /\ _world = NULL)

\* C2: when finalize() returns, every shape, every constraint wrapper and
\* every native constraint created between initialize() and that finalize()
\* has been destroyed; none is live.
C2_CreatedAreDestroyedByFinalize ==
    FinalizeReturned =>
        \A o \in Objects({"shape", "wrapper", "native"}) : Destroyed(o)

C2_Witness ==
    /\ FinalizeReturned
    /\ \E s \in Objects({"shape"}) : Deleted("shape") /\ heap[s] = 1
    /\ \E w \in Objects({"wrapper"}) :
         /\ heap[w] = 1 /\ heap[Obj("native", w[2])] = 1
         /\ Deleted("wrapper") /\ Deleted("native")

\* C3: finalize() removes the world's native constraints from the world and
\* deletes them in the inverse of their registration order: the last one
\* registered is removed, then deleted, then the one before it, down to the
\* first.
RECURSIVE InverseTeardown(_, _)
InverseTeardown(cs, w) ==
    IF cs = << >> THEN << >>
    ELSE <<Ev("removeConstraint", Last(cs), <<w>>), Ev("delete", Last(cs), << >>)>>
         \o InverseTeardown(Front(cs), w)

NativeEvents(l) == SelectSeq(l, LAMBDA e : e.obj[1] = "native")

C3_ConstraintsRemovedInInverseOrder ==
    [][(lastOp' = "finalize" /\ _world # NULL) =>
          NativeEvents(log') = InverseTeardown(worlds[_world].constraints, _world)]_vars

C3_Witness ==
    /\ lastOp = "finalize"
    /\ Cardinality(LogOps("removeConstraint")) >= 2
    /\ \E i, j \in LogOps("removeConstraint") : i < j /\ log[i].obj[2] > log[j].obj[2]

\* C4: in every run of finalize() the phases come in the order constraints,
\* bodies with their motion states, shapes, world components: nothing of a
\* later phase is removed or deleted before anything of an earlier one.
Phase(e) ==
    CASE e.obj[1] \in {"native", "wrapper"} -> 1
      [] e.obj[1] \in {"motionState", "body"} -> 2
      [] e.obj[1] \in {"shape", "_shapes"} -> 3
      [] e.obj[1] \in {"world", "solver", "overlappingPairCache", "dispatcher",
                       "collisionConfiguration"} -> 4
      [] OTHER -> 0

C4_TeardownPhasesInOrder ==
    lastOp = "finalize" =>
        \A i, j \in DOMAIN log :
            (i < j /\ Phase(log[i]) # 0 /\ Phase(log[j]) # 0)
                => Phase(log[i]) <= Phase(log[j])

C4_Witness ==
    /\ lastOp = "finalize"
    /\ ~crashed
    /\ Deleted("native") /\ Deleted("wrapper")
    /\ Deleted("motionState") /\ Deleted("body")
    /\ Deleted("shape") /\ Deleted("world") /\ Deleted("collisionConfiguration")

C6_NoLeakAfterTwoCycles ==
    (lastOp = "finalize" /\ ~misuse /\ Count("world") = 2) =>
        \A o \in Objects({"shape", "wrapper", "native", "world", "solver",
                          "overlappingPairCache", "dispatcher",
                          "collisionConfiguration"}) : Destroyed(o)

\* C7: whenever a world is live its gravity is the controller's stored
\* gravity (after initialize(), after every setGravity), and an update()
\* steps the world with that gravity.
C7_WorldGravityIsStoredGravity ==
    _world # NULL =>
        /\ worlds[_world].gravity = _gravity
        /\ (lastOp = "update" /\ ~crashed) =>
              log[2] = Ev("gravity", Obj("world", _world), _gravity)

C7_Witness ==
    /\ _world # NULL
    /\ lastOp = "update"
    /\ _gravity # DefaultGravity
    /\ worlds[_world].gravity = _gravity

\* C8: for every elapsed time, however large, one update() on a live world
\* performs at most 10 sub-steps and returns.
C8_UpdateAtMostTenSubSteps ==
    (lastOp = "update" /\ _world # NULL) =>
        /\ ~crashed
        /\ log[1].op = "stepSimulation"
        /\ log[1].arg[2] <= 10

C8_Witness ==
    /\ lastOp = "update"
    /\ _world # NULL
    /\ log[1].arg[1] = 30000000
    /\ log[1].arg[2] = 10

\* C10: getBox, getSphere, a create*Constraint or update() called while there
\* is no world (before initialize() or after finalize()) fails with a
\* precondition violation: it does not dereference the null _world and leaves
\* the shape registry and the tracked constraint list as they were.
NeedsWorld ==
    {"getBox", "getSphere", "update", "createFixedConstraint",
     "createGenericConstraint", "createHingeConstraint",
     "createSocketConstraint", "createSpringConstraint"}

C10_NoWorldFailsFast ==
    [][(_world = NULL /\ lastOp' \in NeedsWorld) =>
          /\ LogOps("preconditionViolation")' # {}
          /\ LogOps("nullDeref")' = {}
          /\ _shapes' = _shapes
          /\ _constraints' = _constraints]_vars

\* C11: while a world is live and the calls kept to the lifecycle, after any
\* number of create*Constraint calls the world's constraint array and the
\* tracked wrapper list have the same length, and the i-th wrapper's native
\* constraint is the i-th constraint of the world.
NativeOf(constraint) == Obj("native", constraint[2])

C11_WrappersMatchWorldConstraints ==
    (_world # NULL /\ ~misuse /\ ~crashed) =>
        /\ Len(_constraints) = Len(worlds[_world].constraints)
        /\ \A i \in DOMAIN _constraints :
              worlds[_world].constraints[i] = NativeOf(_constraints[i])

\* C12: getSphere(radius, scale) makes a sphere of radius radius times the
\* largest of scale's three components, whatever their order, and appends
\* that sphere to the shape registry.
Largest(S) == CHOOSE m \in S : \A x \in S : x <= m

C12_SphereRadiusIsLargestScale ==
    [][lastOp' = "getSphere" =>
          LET radius == log'[1].arg[1]
              scale == log'[1].arg[2]
              sphere == log'[2].obj
          IN  /\ log'[2].op = "newSphere"
              /\ log'[2].arg = <<radius * Largest({scale[1], scale[2], scale[3]})>>
              /\ sphere \notin DOMAIN heap
              /\ heap'[sphere] = 0
              /\ _shapes' = Append(_shapes, sphere)]_vars

C12_Witness ==
    /\ lastOp = "getSphere"
    /\ log[1].arg = <<1, <<1, 2, 3>> >>
    /\ log[2].arg = <<3>>
    /\ Last(_shapes) = log[2].obj

\* C13: getBox(min, max, scale) makes a box whose half-extent on each axis
\* is scale * 0.5 * |max - min| on that axis: the same with min and max
\* exchanged, zero where they are equal; and appends that box to the shape
\* registry.  (Half-extents are counted in halves.)
Distance(a, b) == IF a <= b THEN b - a ELSE a - b

C13_BoxHalfExtents ==
    [][lastOp' = "getBox" =>
          LET min == log'[1].arg[1]
              max == log'[1].arg[2]
              scale == log'[1].arg[3]
              box == log'[2].obj
              halves == log'[2].arg
          IN  /\ log'[2].op = "newBox"
              /\ \A axis \in 1..3 :
                    /\ halves[axis] = scale[axis] * Distance(min[axis], max[axis])
                    /\ (min[axis] = max[axis]) => halves[axis] = 0
              /\ box \notin DOMAIN heap
              /\ heap'[box] = 0
              /\ _shapes' = Append(_shapes, box)]_vars

C13_Witness ==
    /\ lastOp = "getBox"
    /\ log[1].arg = << <<0, 0, 0>>, <<2, 4, 6>>, <<1, 1, 1>> >>
    /\ log[2].arg = <<2, 4, 6>>
    /\ Last(_shapes) = log[2].obj

\* C14: getTriangleMesh and getHeightfield return a null shape for every
\* argument, and leave the shape registry, the tracked constraint list, the
\* world and the stored gravity as they were.
C14_UnimplementedShapesReturnNull ==
    [][lastOp' \in {"getTriangleMesh", "getHeightfield"} =>
          /\ log'[Len(log')] = Ev("return", NullObj, << >>)
          /\ LogOps("return")' = {Len(log')}
          /\ UNCHANGED <<_shapes, _constraints, _world, _gravity, worlds, heap, bodies>>]_vars

C14_Witness ==
    /\ lastOp = "getHeightfield"
    /\ log[1].arg = <<2, 2>>
    /\ log[2] = Ev("return", NullObj, << >>)
    /\ _world # NULL
    /\ _shapes # << >>
    /\ _constraints # << >>
    /\ _gravity # DefaultGravity

\* The references native objects hold on one another, as pairs <<holder,
\* held>>: a body on its shape and its motion state, a world on the
\* constraints and collision objects in its arrays and on the components it
\* was built from, a dispatcher on its collision configuration.
References ==
    {<<b, bodies[b].shape>> : b \in DOMAIN bodies}
    \cup {<<b, bodies[b].motionState>> :
             b \in {x \in DOMAIN bodies : bodies[x].motionState # NullObj}}
    \cup UNION {{<<Obj("world", k), x>> :
                   x \in Range(worlds[k].constraints) \cup Range(worlds[k].objects)} :
               k \in DOMAIN worlds}
    \cup UNION {{<<Obj("world", k), Obj(c, k)>> :
                   c \in {"solver", "overlappingPairCache", "dispatcher",
                          "collisionConfiguration"}} :
               k \in DOMAIN worlds}
    \cup {<<Obj("dispatcher", k), Obj("collisionConfiguration", k)>> : k \in DOMAIN worlds}

\* In a run of finalize() with the events l, from a state with the references
\* refs and the heap h: the j-th event deletes an object that a holder still
\* refers to, the holder being live and the object not yet removed from it.
DestroyedWhileReferenced(l, j, refs, h) ==
    /\ l[j].op = "delete"
    /\ \E ref \in refs :
         /\ ref[2] = l[j].obj
         /\ h[ref[1]] = 0
         /\ \A i \in 1..(j - 1) :
              /\ ~(l[i].op = "delete" /\ l[i].obj = ref[1])
              /\ ~(/\ l[i].op \in {"removeConstraint", "removeCollisionObject"}
                    /\ l[i].obj = ref[2]
                    /\ ref[1] = Obj("world", l[i].arg[1]))

\* C15 as stated: in a finalize() that keeps to the lifecycle, nothing at all
\* is destroyed while a live native object still refers to it.
C15_NothingDestroyedWhileReferenced ==
    [][(lastOp' = "finalize" /\ ~misuse') =>
          \A j \in DOMAIN log' :
              ~DestroyedWhileReferenced(log', j, References, heap)]_vars

\* C15: in a finalize() that keeps to the lifecycle, no native constraint,
\* body, shape, world or world component is destroyed while a live native
\* object still refers to it: a constraint and a body are removed from the
\* world before they are deleted, a shape is deleted after every body built
\* on it, the world after its arrays are empty.  The one exception is a rigid
\* body's motion state, deleted while its body is live and in the world.
C15_DestroyedAfterReferrersExceptMotionState ==
    [][(lastOp' = "finalize" /\ ~misuse') =>
          \A j \in DOMAIN log' :
              DestroyedWhileReferenced(log', j, References, heap)
                  => log'[j].obj[1] = "motionState"]_vars

C15_Witness ==
    /\ FinalizeReturned
    /\ \E r, d, b, s, w \in DOMAIN log :
         /\ r < d /\ d < b /\ b < s /\ s < w
         /\ log[r] = Ev("removeConstraint", Obj("native", 2), <<1>>)
         /\ log[d] = Ev("delete", Obj("native", 2), << >>)
         /\ log[b - 1] = Ev("removeCollisionObject", Obj("body", 1), <<1>>)
         /\ log[b] = Ev("delete", Obj("body", 1), << >>)
         /\ log[s] = Ev("delete", Obj("shape", 1), << >>)
         /\ log[w] = Ev("delete", Obj("world", 1), << >>)

\* C16: a finalize() that returns takes the world's collision objects from
\* the last added to the first; for each it deletes the motion state if the
\* object is a rigid body that has one, removes the object from the world and
\* deletes the object; an object without a motion state is removed and
\* deleted all the same.
RECURSIVE ObjectTeardown(_, _)
ObjectTeardown(objs, w) ==
    IF objs = << >> THEN << >>
    ELSE LET obj == Last(objs)
             ms == bodies[obj].motionState
         IN  (IF bodies[obj].rigid /\ ms # NullObj
              THEN <<Ev("delete", ms, << >>)>> ELSE << >>)
             \o <<Ev("removeCollisionObject", obj, <<w>>), Ev("delete", obj, << >>)>>
             \o ObjectTeardown(Front(objs), w)

BodyEvents(l) == SelectSeq(l, LAMBDA e : e.obj[1] \in {"body", "motionState"})

C16_ObjectsTornDownLastToFirst ==
    [][(lastOp' = "finalize" /\ _world # NULL /\ ~crashed') =>
          BodyEvents(log') = ObjectTeardown(worlds[_world].objects, _world)]_vars

C16_Witness ==
    /\ lastOp = "finalize"
    /\ ~crashed
    /\ \E i, j \in LogOps("removeCollisionObject") :
         /\ i < j
         /\ log[i].obj = Obj("body", 2) /\ log[j].obj = Obj("body", 1)
         /\ log[i + 1] = Ev("delete", Obj("body", 2), << >>)
         /\ log[j + 1] = Ev("delete", Obj("body", 1), << >>)
    /\ bodies[Obj("body", 2)].motionState = NullObj
    /\ \E i \in LogOps("delete") : log[i].obj = Obj("motionState", 1)

\* C17: initialize() constructs the collision configuration, the dispatcher,
\* the broadphase cache, the solver and the world, in this order; a
\* finalize() that returns has deleted them in exactly the reverse order, and
\* after it every one of the five fields is null.
ConstructionOrder ==
    <<"collisionConfiguration", "dispatcher", "overlappingPairCache", "solver", "world">>

Reverse(s) == [i \in 1..Len(s) |-> s[Len(s) + 1 - i]]
ObjsOf(l) == [i \in 1..Len(l) |-> l[i].obj]

Constructed == ObjsOf(SelectSeq(log, LAMBDA e : e.op = "new"))
ComponentsDeleted ==
    ObjsOf(SelectSeq(log, LAMBDA e : e.op = "delete" /\ e.obj[1] \in Range(ConstructionOrder)))

C17_ComponentsDestroyedInReverse ==
    /\ lastOp = "initialize" =>
          Constructed = [i \in 1..5 |-> Obj(ConstructionOrder[i], _world)]
    /\ FinalizeReturned =>
          \E k \in 1..MaxInits :
              ComponentsDeleted = Reverse([i \in 1..5 |-> Obj(ConstructionOrder[i], k)])
    /\ (lastOp = "finalize" /\ ~crashed) =>
          /\ _world = NULL
          /\ _solver = NULL
          /\ _overlappingPairCache = NULL
          /\ _dispatcher = NULL
          /\ _collisionConfiguration = NULL

C17_Witness ==
    /\ FinalizeReturned
    /\ ComponentsDeleted = Reverse([i \in 1..5 |-> Obj(ConstructionOrder[i], 2)])
    /\ \A c \in Range(ConstructionOrder) : heap[Obj(c, 1)] = 1 /\ heap[Obj(c, 2)] = 1
    /\ _world = NULL /\ _collisionConfiguration = NULL

\* C18: an initialize() on a controller that still holds a world leaves that
\* world live and no longer held; from then on the world, its solver,
\* broadphase cache, dispatcher and collision configuration and the native
\* constraints attached to it stay live and attached through every later
\* call: no finalize() destroys them.
Held(k) ==
    {Obj(c, k) : c \in Range(ConstructionOrder)} \cup Range(worlds[k].constraints)

C18_SecondInitializeLeaksFirstSet ==
    [][/\ (lastOp' = "initialize" /\ _world # NULL) =>
             (_world' # _world /\ heap'[Obj("world", _world)] = 0)
       /\ \A k \in DOMAIN worlds :
             (heap[Obj("world", k)] = 0 /\ _world # k) =>
                 /\ _world' # k
                 /\ k \in DOMAIN worlds'
                 /\ worlds'[k] = worlds[k]
                 /\ \A o \in Held(k) : heap[o] = 0 /\ heap'[o] = 0]_vars

C18_Witness ==
    /\ lastOp = "finalize"
    /\ ~crashed
    /\ 1 \in DOMAIN worlds
    /\ worlds[1].constraints = <<Obj("native", 1)>>
    /\ \A o \in Held(1) : heap[o] = 0
    /\ heap[Obj("wrapper", 1)] = 1
    /\ Obj("world", 2) \in DOMAIN heap
    /\ heap[Obj("world", 2)] = 1

\* C19: over initialize, create*Constraint and finalize calls that keep to
\* the lifecycle, repeated cycles included, no constraint wrapper is deleted
\* more than once.
C19_WrapperDestroyedAtMostOnce ==
    ~misuse =>
        /\ \A w \in Objects({"wrapper"}) : heap[w] <= 1
        /\ \A i \in LogOps("doubleDelete") : log[i].obj[1] # "wrapper"

\* C20: pause() and resume() change nothing in any state: not the fields of
\* the controller (the world pointer, the stored gravity, the shape registry,
\* the tracked constraint list), not the worlds (their gravity, constraints
\* and objects), not any object; and nothing a later call depends on, so a
\* sequence of calls ends in the same state with them as without.
C20_PauseResumeInert ==
    [][lastOp' \in {"pause", "resume"} =>
          /\ UNCHANGED <<ctrl, native, crashed, misuse>>
          /\ log' = << >>]_vars

C20_Witness ==
    /\ lastOp \in {"pause", "resume"}
    /\ _world # NULL
    /\ _gravity # DefaultGravity
    /\ worlds[_world].gravity = _gravity
    /\ worlds[_world].constraints # << >>
    /\ _shapes # << >>
    /\ Count("world") = 2
====
